---- MODULE Spec2Model ----
(***************************************************************************)
(* Model of the NYC taxi pipeline orchestrators:                           *)
(*   scripts/run_incremental.py  (incremental step, one month per run)     *)
(*   scripts/full_refresh.py     (full refresh of the whole year)          *)
(*   scripts/pipeline_helpers.py (download, metadata cursor, raw append)   *)
(* Persistent state: the metadata row (cursor), the raw table, the local   *)
(* parquet files and the merged CSV.  A run is a sequence of steps; every  *)
(* step that talks to the network or the database may fail.                *)
(***************************************************************************)
EXTENDS Integers, Sequences, FiniteSets, TLC

\* ---------------------------------------------------------------- bounds
\* Number of failures (network, database) injected in one behaviour.
MaxFaults == 2
\* Number of runs (incremental steps and full refreshes) started in one behaviour.
MaxRuns == 3

\* ------------------------------------------------------- program constants
YEAR == 2024
LastMonth == 12
Months == 1..LastMonth

\* Data rows of the upstream artifact of month m (header excluded).
RowsOf(m) == m

\* ------------------------------------------------------------ month text
\* A 'YYYY-MM' text is modelled by its year and the two digits of its month
\* field; None is the absent value.
None == [present |-> FALSE, y |-> 0, mm |-> <<0, 0>>]
Text(y, d1, d2) == [present |-> TRUE, y |-> y, mm |-> <<d1, d2>>]

\* f"{year}-{month:02}"
FormatMonth(year, month) == Text(year, month \div 10, month % 10)

\* datetime.strptime(s, "%Y-%m"): ok is FALSE when it raises ValueError.
\* %m takes one or two digits: '2024-5' parses as May, '2024-13' and
\* '2024-00' raise.
Strptime(s) ==
    LET m == IF Len(s.mm) = 2 THEN 10 * s.mm[1] + s.mm[2] ELSE s.mm[1]
    IN  IF s.present /\ m \in Months
        THEN [ok |-> TRUE, year |-> s.y, month |-> m]
        ELSE [ok |-> FALSE, year |-> 0, month |-> 0]

\* next_month_after(month_str)
next_month_after(month_str) ==
    IF month_str = None
    THEN FormatMonth(YEAR, 1)
    ELSE LET dt == Strptime(month_str)
         IN  IF ~dt.ok THEN None
             ELSE IF dt.month + 1 > LastMonth THEN None
             ELSE FormatMonth(dt.year, dt.month + 1)

\* year_s, month_s = next_month.split("-"); month_int = int(month_s)
month_int(next_month) == 10 * next_month.mm[1] + next_month.mm[2]

\* filename = month_to_filename(YEAR, month_int); parquet_path = DATA_DIR /
\* filename: the artifact the run fetches and appends is the one of the
\* configured YEAR, whatever year_s is.
parquet_path(next_month) == [year |-> YEAR, month |-> month_int(next_month)]

\* ------------------------------------------------------------------ state
VARIABLES
    cursor,       \* pipeline_metadata.last_loaded_month of 'nyc_taxi_2024' (None: no row)
    metaExists,   \* the pipeline_metadata table exists
    raw,          \* raw_taxi_data_2024: copies of each month's rows it holds
    files,        \* local parquet file of each month: missing, partial, complete
    csv,          \* the merged CSV: exists, and the months whose rows it holds
    deleteAfter,  \* delete_parquet_after of run_incremental_one_month
    kind,         \* the run in progress, or the last one: none, incremental, full
    pc,           \* next step of the run in progress; idle between runs
    last_loaded,  \* local of run_incremental_one_month
    next_month,   \* local of run_incremental_one_month
    month,        \* loop variable of run_full_refresh's download loop
    csv_count,    \* local of load_csv_to_postgres
    db_count,     \* local of load_csv_to_postgres
    outcome,      \* exit of the last run: none, running, success (0), failure (nonzero)
    log,          \* steps the current (or last) run has executed, in order
    cursor0,      \* cursor when the current (or last) run started
    raw0,         \* raw table when the current (or last) run started
    prev,         \* summary of the run before the current (or last) one
    processed,    \* months whose append, cleaning and aggregation succeeded in one run
    readFailed,   \* some read of the cursor has failed so far
    faults,       \* failures injected so far
    runs,         \* runs started so far
    pc2,          \* position of a second, overlapping incremental invocation
    last_loaded2, \* its local last_loaded
    next_month2,  \* its local next_month
    appended2     \* the partition it has appended (0: none)

store  == <<cursor, metaExists, raw, files, csv>>
locals == <<last_loaded, next_month, month, csv_count, db_count>>
hist   == <<cursor0, raw0, prev, processed, readFailed, runs>>
second == <<pc2, last_loaded2, next_month2, appended2>>
run1   == <<deleteAfter, kind, pc, locals, outcome, log, cursor0, raw0, prev,
           processed, readFailed>>
vars   == <<cursor, metaExists, raw, files, csv, deleteAfter, kind, pc,
           last_loaded, next_month, month, csv_count, db_count, outcome, log,
           cursor0, raw0, prev, processed, readFailed, faults, runs,
           pc2, last_loaded2, next_month2, appended2>>

Entry(s, p, ok) == [step |-> s, part |-> p, ok |-> ok]
Has(l, s)       == \E i \in 1..Len(l) : l[i].step = s
HasOk(l, s, p)  == \E i \in 1..Len(l) : l[i] = Entry(s, p, TRUE)
HasFail(l, s)   == \E i \in 1..Len(l) : l[i].step = s /\ ~l[i].ok
Count(l, s)     == Cardinality({i \in 1..Len(l) : l[i].step = s})

\* Steps of the incremental chain that work on the partition in flight.
PartitionSteps == {"fetch", "append", "clean", "aggregate", "commit"}

\* The partition on which the run with log l failed (0: no such failure).
FailedPart(l) ==
    IF \E i \in 1..Len(l) : l[i].step \in PartitionSteps /\ ~l[i].ok
    THEN (CHOOSE e \in {l[i] : i \in 1..Len(l)} :
              e.step \in PartitionSteps /\ ~e.ok).part
    ELSE 0

\* The partition the run with log l selected (0: none).
Attempted(l) ==
    IF Has(l, "fetch")
    THEN (CHOOSE e \in {l[i] : i \in 1..Len(l)} : e.step = "fetch").part
    ELSE 0

\* The step on which the run with log l stopped (none: its last step did
\* not fail).
LastFailed(l) ==
    IF Len(l) > 0 /\ ~l[Len(l)].ok THEN l[Len(l)].step ELSE "none"

NoPrev == [kind |-> "none", outcome |-> "none", failedPart |-> 0,
           lastFailed |-> "none"]

\* The log of an incremental run that loaded month m and committed it.
CompleteLog(m, del) ==
    <<Entry("ensure", 0, TRUE), Entry("read", 0, TRUE), Entry("fetch", m, TRUE),
      Entry("append", m, TRUE), Entry("clean", m, TRUE),
      Entry("aggregate", m, TRUE), Entry("commit", m, TRUE)>>
    \o (IF del THEN <<Entry("delete", m, TRUE)>> ELSE <<>>)

\* A fresh installation: nothing loaded, nothing downloaded.
InitFresh ==
    /\ cursor = None
    /\ metaExists = FALSE
    /\ raw = [m \in Months |-> 0]
    /\ files = [m \in Months |-> "missing"]
    /\ deleteAfter \in BOOLEAN
    /\ kind = "none"
    /\ outcome = "none"
    /\ log = <<>>
    /\ cursor0 = None
    /\ raw0 = [m \in Months |-> 0]
    /\ prev = NoPrev
    /\ processed = {}
    /\ last_loaded = None
    /\ next_month = None

\* The installation after the incremental step has run without failure once
\* for each of the months 1..k (k >= 2).
InitLoaded(k) ==
    /\ cursor = FormatMonth(YEAR, k)
    /\ metaExists = TRUE
    /\ raw = [m \in Months |-> IF m <= k THEN 1 ELSE 0]
    /\ deleteAfter \in BOOLEAN
    /\ files = [m \in Months |-> IF m <= k /\ ~deleteAfter THEN "complete" ELSE "missing"]
    /\ kind = "incremental"
    /\ outcome = "success"
    /\ log = CompleteLog(k, deleteAfter)
    /\ cursor0 = FormatMonth(YEAR, k - 1)
    /\ raw0 = [m \in Months |-> IF m <= k - 1 THEN 1 ELSE 0]
    /\ prev = [kind |-> "incremental", outcome |-> "success", failedPart |-> 0,
               lastFailed |-> "none"]
    /\ processed = {FormatMonth(YEAR, m) : m \in 1..k}
    /\ last_loaded = FormatMonth(YEAR, k - 1)
    /\ next_month = FormatMonth(YEAR, k)

\* Values the text column last_loaded_month can hold besides those the
\* pipeline of this YEAR writes: a month of another year, a month field that
\* is no month (13, 00) and a month written with one digit.
OtherYear == YEAR - 1
Malformed == {Text(YEAR, 1, 3), Text(YEAR, 0, 0),
              [present |-> TRUE, y |-> YEAR, mm |-> <<5>>]}
AnyCursors ==
    {FormatMonth(OtherYear, 5), FormatMonth(OtherYear, LastMonth),
     FormatMonth(YEAR, LastMonth - 1)} \cup Malformed

\* An installation whose metadata row was set by hand to one of AnyCursors,
\* with nothing loaded and nothing downloaded.
InitAny ==
    /\ cursor \in AnyCursors
    /\ metaExists = TRUE
    /\ raw = [m \in Months |-> 0]
    /\ files = [m \in Months |-> "missing"]
    /\ deleteAfter \in BOOLEAN
    /\ kind = "none"
    /\ outcome = "none"
    /\ log = <<>>
    /\ cursor0 = cursor
    /\ raw0 = raw
    /\ prev = NoPrev
    /\ processed = {}
    /\ last_loaded = None
    /\ next_month = None
    /\ csv = [exists |-> FALSE, months |-> {}]
    /\ pc = "idle"
    /\ month = 0
    /\ csv_count = 0
    /\ db_count = 0
    /\ readFailed = FALSE
    /\ faults = 0
    /\ runs = 0
    /\ pc2 = "idle"
    /\ last_loaded2 = None
    /\ next_month2 = None
    /\ appended2 = 0

Init ==
    /\ InitFresh \/ InitLoaded(LastMonth - 1)
    /\ csv = [exists |-> FALSE, months |-> {}]
    /\ pc = "idle"
    /\ month = 0
    /\ csv_count = 0
    /\ db_count = 0
    /\ readFailed = FALSE
    /\ faults = 0
    /\ runs = 0
    /\ pc2 = "idle"
    /\ last_loaded2 = None
    /\ next_month2 = None
    /\ appended2 = 0

\* A step fails: one more injected failure.
Fault == faults < MaxFaults /\ faults' = faults + 1
NoFault == faults' = faults

\* The run ends: return (exit 0) or an exception reaching __main__ (nonzero).
Return == pc' = "idle" /\ outcome' = "success"
Raise  == pc' = "idle" /\ outcome' = "failure"

\* A new run starts: the finished one becomes prev.
Begin(k, first) ==
    /\ pc = "idle"
    /\ runs < MaxRuns
    /\ runs' = runs + 1
    /\ kind' = k
    /\ pc' = first
    /\ outcome' = "running"
    /\ log' = <<>>
    /\ cursor0' = cursor
    /\ raw0' = raw
    /\ prev' = [kind |-> kind, outcome |-> outcome, failedPart |-> FailedPart(log),
                lastFailed |-> LastFailed(log)]
    /\ last_loaded' = None
    /\ next_month' = None
    /\ month' = 0
    /\ csv_count' = 0
    /\ db_count' = 0
    /\ UNCHANGED <<store, deleteAfter, processed, readFailed, faults>>
    /\ UNCHANGED second

\* ------------------------------------------------- pipeline_helpers.py
\* get_last_loaded_month: the row's value, or None when the row is absent or
\* when the query raised (the except clause returns None).
get_last_loaded_month(ok) == IF ok THEN cursor ELSE None

\* download_parquet(url, dest_path): f is the local file, net the transfer's
\* course (ok; refused: it fails before the file is opened; cut: it fails
\* while the chunks are written).  ret is the value returned.
download_parquet(f, net) ==
    IF f # "missing" THEN [file |-> f, ret |-> TRUE, transfer |-> FALSE]
    ELSE IF net = "ok" THEN [file |-> "complete", ret |-> TRUE, transfer |-> TRUE]
    ELSE IF net = "refused" THEN [file |-> "missing", ret |-> FALSE, transfer |-> TRUE]
    ELSE [file |-> "partial", ret |-> FALSE, transfer |-> TRUE]

Transfers == {"ok", "refused", "cut"}

\* load_parquet_month_to_raw_inmemory: TRUE when the file can be read into
\* an Arrow table (it exists and pq.read_table accepts it).
Readable(f) == f = "complete"

\* ------------------------------------------------- run_incremental.py
IncStart == Begin("incremental", "ensure")

\* ensure_pipeline_metadata_table()
EnsureMetadata ==
    /\ kind = "incremental" /\ pc = "ensure"
    /\ \E ok \in BOOLEAN :
        /\ log' = Append(log, Entry("ensure", 0, ok))
        /\ IF ok
           THEN /\ NoFault
                /\ metaExists' = TRUE
                /\ pc' = "read"
                /\ UNCHANGED outcome
           ELSE /\ Fault
                /\ Raise
                /\ UNCHANGED metaExists
    /\ UNCHANGED <<cursor, raw, files, csv, deleteAfter, kind, locals, hist>>
    /\ UNCHANGED second

\* last_loaded = get_last_loaded_month()
GetLastLoaded ==
    /\ kind = "incremental" /\ pc = "read"
    /\ \E ok \in BOOLEAN :
        /\ IF ok THEN NoFault ELSE Fault
        /\ last_loaded' = get_last_loaded_month(ok)
        /\ log' = Append(log, Entry("read", 0, ok))
        /\ readFailed' = (readFailed \/ ~ok)
    /\ pc' = "next"
    /\ UNCHANGED <<store, deleteAfter, kind, next_month, month, csv_count,
                   db_count, outcome, cursor0, raw0, prev, processed, runs>>
    /\ UNCHANGED second

\* next_month = next_month_after(last_loaded); if not next_month: return
NextMonth ==
    /\ kind = "incremental" /\ pc = "next"
    /\ next_month' = next_month_after(last_loaded)
    /\ IF next_month' = None
       THEN Return
       ELSE pc' = "download" /\ UNCHANGED outcome
    /\ UNCHANGED <<store, deleteAfter, kind, last_loaded, month, csv_count,
                   db_count, log, hist, faults>>
    /\ UNCHANGED second

\* Mutant of AfterDownload: the value download_parquet returns is ignored.
AfterDownload_Ignore(ret) == "load"

\* Where the run goes after download_parquet returned ret: on False it logs
\* an error and returns.
AfterDownload(ret) == IF ret THEN "load" ELSE "idle"

\* ok = download_parquet(url, parquet_path); if not ok: return
IncDownload ==
    /\ kind = "incremental" /\ pc = "download"
    /\ LET m == parquet_path(next_month).month IN
       \E net \in Transfers :
        LET r == download_parquet(files[m], net) IN
        /\ net # "ok" => files[m] = "missing"
        /\ IF r.ret THEN NoFault ELSE Fault
        /\ files' = [files EXCEPT ![m] = r.file]
        /\ log' = Append(log, Entry("fetch", m, r.ret))
        /\ pc' = AfterDownload(r.ret)
        /\ outcome' = IF pc' = "idle" THEN "success" ELSE outcome
    /\ UNCHANGED <<cursor, metaExists, raw, csv, deleteAfter, kind, locals, hist>>
    /\ UNCHANGED second

\* try: <step> except Exception: logger.error(...); raise
\* The step after each guarded step of run_incremental_one_month; "idle" with
\* a failure outcome when the exception is re-raised.
AfterLoad(ok)   == IF ok THEN "silver" ELSE "idle"
\* Mutant of AfterSilver: the failure of the cleaning pass is logged and not
\* re-raised.
AfterSilver_Swallow(ok) == "gold"
AfterSilver(ok) == IF ok THEN "gold" ELSE "idle"
\* Mutant of AfterGold: the failure of the aggregation pass is logged and
\* not re-raised.
AfterGold_Swallow(ok) == "update"
AfterGold(ok)   == IF ok THEN "update" ELSE "idle"
AfterUpdate(ok) == IF ok THEN "unlink" ELSE "idle"

\* The exit recorded when a guarded step hands control to step p.
Raised(p) == IF p = "idle" THEN "failure" ELSE outcome

\* Mutant of Appended: the table is truncated before the COPY.
Appended_Truncate(r, m, ok) ==
    [k \in Months |-> IF k = m /\ ok THEN 1 ELSE 0]

\* COPY {table_name} FROM STDIN in one transaction: the raw table r after the
\* rows of month m were appended (ok), or after the rollback (not ok).
Appended(r, m, ok) == [r EXCEPT ![m] = IF ok THEN @ + 1 ELSE @]

\* load_parquet_month_to_raw_inmemory(parquet_path): COPY appends the rows in
\* one transaction; any exception is re-raised.
LoadParquet ==
    /\ kind = "incremental" /\ pc = "load"
    /\ LET m == parquet_path(next_month).month IN
       \E ok \in BOOLEAN :
        /\ ok => Readable(files[m])
        /\ IF ok \/ ~Readable(files[m]) THEN NoFault ELSE Fault
        /\ log' = Append(log, Entry("append", m, ok))
        /\ raw' = Appended(raw, m, ok)
        /\ pc' = AfterLoad(ok)
        /\ outcome' = Raised(pc')
    /\ UNCHANGED <<cursor, metaExists, files, csv, deleteAfter, kind, locals, hist>>
    /\ UNCHANGED second

\* run_sql_file(SQL_DIR / "transform_silver.sql")
IncSilver ==
    /\ kind = "incremental" /\ pc = "silver"
    /\ \E ok \in BOOLEAN :
        /\ IF ok THEN NoFault ELSE Fault
        /\ log' = Append(log, Entry("clean", month_int(next_month), ok))
        /\ pc' = AfterSilver(ok)
        /\ outcome' = Raised(pc')
    /\ UNCHANGED <<store, deleteAfter, kind, locals, hist>>
    /\ UNCHANGED second

\* run_sql_file(SQL_DIR / "aggregate_gold.sql")
IncGold ==
    /\ kind = "incremental" /\ pc = "gold"
    /\ LET m == month_int(next_month) IN
       \E ok \in BOOLEAN :
        /\ IF ok THEN NoFault ELSE Fault
        /\ log' = Append(log, Entry("aggregate", m, ok))
        /\ processed' =
             IF ok /\ HasOk(log, "append", m) /\ HasOk(log, "clean", m)
             THEN processed \cup {FormatMonth(YEAR, m)}
             ELSE processed
        /\ pc' = AfterGold(ok)
        /\ outcome' = Raised(pc')
    /\ UNCHANGED <<store, deleteAfter, kind, locals, cursor0, raw0, prev, readFailed, runs>>
    /\ UNCHANGED second

\* update_last_loaded_month(next_month): the upsert, in one transaction
UpdateLastLoaded ==
    /\ kind = "incremental" /\ pc = "update"
    /\ \E ok \in BOOLEAN :
        /\ IF ok THEN NoFault ELSE Fault
        /\ log' = Append(log, Entry("commit", month_int(next_month), ok))
        /\ cursor' = IF ok THEN next_month ELSE cursor
        /\ pc' = AfterUpdate(ok)
        /\ outcome' = Raised(pc')
    /\ UNCHANGED <<metaExists, raw, files, csv, deleteAfter, kind, locals, hist>>
    /\ UNCHANGED second

\* if delete_parquet_after: parquet_path.unlink(missing_ok=True); a failure
\* of the unlink is logged as a warning only.
DeleteParquet ==
    /\ kind = "incremental" /\ pc = "unlink"
    /\ LET m == parquet_path(next_month).month IN
       IF deleteAfter
       THEN \E ok \in BOOLEAN :
              /\ IF ok THEN NoFault ELSE Fault
              /\ files' = [files EXCEPT ![m] = IF ok THEN "missing" ELSE @]
              /\ log' = Append(log, Entry("delete", m, ok))
       ELSE NoFault /\ UNCHANGED <<files, log>>
    /\ Return
    /\ UNCHANGED <<cursor, metaExists, raw, csv, deleteAfter, kind, locals, hist>>
    /\ UNCHANGED second

Incremental ==
    \/ IncStart \/ EnsureMetadata \/ GetLastLoaded \/ NextMonth \/ IncDownload
    \/ LoadParquet \/ IncSilver \/ IncGold \/ UpdateLastLoaded \/ DeleteParquet

\* ------------------------------------------------------ full_refresh.py
RECURSIVE SumOver(_, _)
SumOver(f, S) ==
    IF S = {} THEN 0
    ELSE LET m == CHOOSE x \in S : TRUE IN f[m] + SumOver(f, S \ {m})

\* Lines of the merged CSV: one header (written with the first table) and the
\* data rows of the months merged.
CsvLines(months) ==
    IF months = {} THEN 0
    ELSE 1 + SumOver([m \in Months |-> RowsOf(m)], months)

Max(a, b) == IF a >= b THEN a ELSE b

\* get_csv_row_count(csv_path): the lines minus the header; 0 on any error.
get_csv_row_count(ok) == IF ok THEN Max(CsvLines(csv.months) - 1, 0) ELSE 0

\* get_table_row_count(table_name): SELECT COUNT(*); 0 on any error.
get_table_row_count(ok) ==
    IF ok THEN SumOver([m \in Months |-> raw[m] * RowsOf(m)], Months) ELSE 0

\* Mutant of SkipLoad: the test csv_count > 0 is left out.
SkipLoad_NoZeroTest(s, d) == s = d

\* if csv_count == db_count and csv_count > 0: skip the load
SkipLoad(s, d) == s = d /\ s > 0

\* merge_parquet_files_to_csv: the months written to the CSV, in the order
\* 1..12: a missing file is skipped, and pq.read_table raises on the first
\* file it cannot read, which ends the merge.
MergeFails == \E m \in Months : files[m] = "partial"
MergedMonths ==
    {m \in Months : files[m] = "complete"
                    /\ \A k \in 1..m : files[k] # "partial"}

\* Where run_full_refresh goes after the download of one month: the loop goes
\* on whatever download_parquet did (it returns nothing and swallows errors).
AfterFullDownload(present, m) == IF m = LastMonth THEN "merge" ELSE "download_all"

FullStart == Begin("full", "create_raw")

\* run_sql_file(SQL_DIR / "create_raw_table.sql").  The SQL scripts are not
\* among the sources: create_raw_table.sql is taken to create the table when
\* it is missing and to leave the rows of an existing table alone, and the
\* two transform scripts to write neither the raw table nor the metadata row.
CreateRaw ==
    /\ kind = "full" /\ pc = "create_raw"
    /\ \E ok \in BOOLEAN :
        /\ log' = Append(log, Entry("create", 0, ok))
        /\ IF ok
           THEN NoFault /\ pc' = "download_all" /\ month' = 1 /\ UNCHANGED outcome
           ELSE Fault /\ Raise /\ UNCHANGED month
    /\ UNCHANGED <<store, deleteAfter, kind, last_loaded, next_month, csv_count,
                   db_count, hist>>
    /\ UNCHANGED second

\* for month in range(1, 13): download_parquet(url, dest)
FullDownload ==
    /\ kind = "full" /\ pc = "download_all"
    /\ \E net \in Transfers :
        LET r == download_parquet(files[month], net) IN
        /\ net # "ok" => files[month] = "missing"
        /\ IF r.ret THEN NoFault ELSE Fault
        /\ files' = [files EXCEPT ![month] = r.file]
        /\ log' = Append(log, Entry("fetch", month, r.ret))
        /\ pc' = AfterFullDownload(r.ret, month)
        /\ outcome' = IF pc' = "idle" THEN "failure" ELSE outcome
    /\ month' = IF month = LastMonth THEN month ELSE month + 1
    /\ UNCHANGED <<cursor, metaExists, raw, csv, deleteAfter, kind, last_loaded,
                   next_month, csv_count, db_count, hist>>
    /\ UNCHANGED second

\* merge_parquet_files_to_csv(COMBINED_CSV_PATH, YEAR)
Merge ==
    /\ kind = "full" /\ pc = "merge"
    /\ IF csv.exists
       THEN /\ log' = Append(log, Entry("merge", 0, TRUE))
            /\ pc' = "count"
            /\ UNCHANGED <<csv, outcome>>
       ELSE /\ csv' = [exists |-> TRUE, months |-> MergedMonths]
            /\ log' = Append(log, Entry("merge", 0, ~MergeFails))
            /\ IF MergeFails THEN Raise ELSE pc' = "count" /\ UNCHANGED outcome
    /\ UNCHANGED <<cursor, metaExists, raw, files, deleteAfter, kind, locals,
                   hist, faults>>
    /\ UNCHANGED second

\* load_csv_to_postgres: the two counts and the decision
CountAndDecide ==
    /\ kind = "full" /\ pc = "count"
    /\ \E okc \in BOOLEAN, okd \in BOOLEAN :
        /\ faults + (IF okc THEN 0 ELSE 1) + (IF okd THEN 0 ELSE 1) <= MaxFaults
        /\ faults' = faults + (IF okc THEN 0 ELSE 1) + (IF okd THEN 0 ELSE 1)
        /\ csv_count' = get_csv_row_count(okc)
        /\ db_count' = get_table_row_count(okd)
        /\ log' = Append(log, Entry("count", 0, okc /\ okd))
    /\ pc' = IF SkipLoad(csv_count', db_count') THEN "silver" ELSE "truncate"
    /\ UNCHANGED <<store, deleteAfter, kind, last_loaded, next_month, month,
                   outcome, hist>>
    /\ UNCHANGED second

\* truncate_table(table_name)
Truncate ==
    /\ kind = "full" /\ pc = "truncate"
    /\ \E ok \in BOOLEAN :
        /\ log' = Append(log, Entry("truncate", 0, ok))
        /\ IF ok
           THEN /\ NoFault
                /\ raw' = [m \in Months |-> 0]
                /\ pc' = "copy"
                /\ UNCHANGED outcome
           ELSE Fault /\ Raise /\ UNCHANGED raw
    /\ UNCHANGED <<cursor, metaExists, files, csv, deleteAfter, kind, locals, hist>>
    /\ UNCHANGED second

\* cur.copy_expert(copy_sql, f); conn.commit()
CopyCsv ==
    /\ kind = "full" /\ pc = "copy"
    /\ \E ok \in BOOLEAN :
        /\ log' = Append(log, Entry("insert", 0, ok))
        /\ IF ok
           THEN /\ NoFault
                /\ raw' = [m \in Months |-> IF m \in csv.months THEN raw[m] + 1 ELSE raw[m]]
                /\ pc' = "silver"
                /\ UNCHANGED outcome
           ELSE Fault /\ Raise /\ UNCHANGED raw
    /\ UNCHANGED <<cursor, metaExists, files, csv, deleteAfter, kind, locals, hist>>
    /\ UNCHANGED second

\* Mutant of AfterFullSilver: the exception of the cleaning pass is caught
\* and the run goes on.
AfterFullSilver_Swallow(ok) == "gold"

\* run_sql_file re-raises and run_full_refresh does not catch: the step after
\* the cleaning pass.
AfterFullSilver(ok) == IF ok THEN "gold" ELSE "idle"

\* run_sql_file(SQL_DIR / "transform_silver.sql")
FullSilver ==
    /\ kind = "full" /\ pc = "silver"
    /\ \E ok \in BOOLEAN :
        /\ IF ok THEN NoFault ELSE Fault
        /\ log' = Append(log, Entry("clean", 0, ok))
        /\ pc' = AfterFullSilver(ok)
        /\ outcome' = Raised(pc')
    /\ UNCHANGED <<store, deleteAfter, kind, locals, hist>>
    /\ UNCHANGED second

\* Mutant of CursorAfterFullRefresh: the run that has reloaded the year
\* records its last month in the metadata row.
CursorAfterFullRefresh_Mark(c) == FormatMonth(YEAR, LastMonth)

\* run_full_refresh ends after aggregate_gold.sql: full_refresh.py has no
\* statement on pipeline_metadata, so the metadata row c stays as it is.
CursorAfterFullRefresh(c) == c

\* run_sql_file(SQL_DIR / "aggregate_gold.sql"), the last step of the run
FullGold ==
    /\ kind = "full" /\ pc = "gold"
    /\ \E ok \in BOOLEAN :
        /\ log' = Append(log, Entry("aggregate", 0, ok))
        /\ IF ok
           THEN NoFault /\ Return /\ cursor' = CursorAfterFullRefresh(cursor)
           ELSE Fault /\ Raise /\ UNCHANGED cursor
    /\ UNCHANGED <<metaExists, raw, files, csv, deleteAfter, kind, locals, hist>>
    /\ UNCHANGED second

FullRefresh ==
    \/ FullStart \/ CreateRaw \/ FullDownload \/ Merge \/ CountAndDecide
    \/ Truncate \/ CopyCsv \/ FullSilver \/ FullGold

Next == Incremental \/ FullRefresh

Spec == Init /\ [][Next]_vars

\* The same runs, started from a metadata row holding any of AnyCursors.
SpecAny == InitAny /\ [][Next]_vars

\* ------------------------------------------- two overlapping invocations
\* run_incremental.py run a second time while the first invocation is still
\* running: the same steps on the same database and data directory, with
\* locals of its own.  No step of run_incremental_one_month takes a lock.
Start2 ==
    /\ pc2 = "idle"
    /\ runs < MaxRuns
    /\ runs' = runs + 1
    /\ pc2' = "ensure"
    /\ last_loaded2' = None
    /\ next_month2' = None
    /\ appended2' = 0
    /\ UNCHANGED <<store, run1, faults>>

\* ensure_pipeline_metadata_table()
EnsureMetadata2 ==
    /\ pc2 = "ensure"
    /\ \E ok \in BOOLEAN :
        IF ok
        THEN NoFault /\ metaExists' = TRUE /\ pc2' = "read"
        ELSE Fault /\ pc2' = "idle" /\ UNCHANGED metaExists
    /\ UNCHANGED <<cursor, raw, files, csv, run1, runs, last_loaded2,
                   next_month2, appended2>>

\* last_loaded = get_last_loaded_month()
GetLastLoaded2 ==
    /\ pc2 = "read"
    /\ \E ok \in BOOLEAN :
        /\ IF ok THEN NoFault ELSE Fault
        /\ last_loaded2' = get_last_loaded_month(ok)
    /\ pc2' = "next"
    /\ UNCHANGED <<store, run1, runs, next_month2, appended2>>

\* next_month = next_month_after(last_loaded); if not next_month: return
NextMonth2 ==
    /\ pc2 = "next"
    /\ next_month2' = next_month_after(last_loaded2)
    /\ pc2' = IF next_month2' = None THEN "idle" ELSE "download"
    /\ UNCHANGED <<store, run1, faults, runs, last_loaded2, appended2>>

\* ok = download_parquet(url, parquet_path); if not ok: return
IncDownload2 ==
    /\ pc2 = "download"
    /\ LET m == month_int(next_month2) IN
       \E net \in Transfers :
        LET r == download_parquet(files[m], net) IN
        /\ net # "ok" => files[m] = "missing"
        /\ IF r.ret THEN NoFault ELSE Fault
        /\ files' = [files EXCEPT ![m] = r.file]
        /\ pc2' = AfterDownload(r.ret)
    /\ UNCHANGED <<cursor, metaExists, raw, csv, run1, runs, last_loaded2,
                   next_month2, appended2>>

\* load_parquet_month_to_raw_inmemory(parquet_path)
LoadParquet2 ==
    /\ pc2 = "load"
    /\ LET m == month_int(next_month2) IN
       \E ok \in BOOLEAN :
        /\ ok => Readable(files[m])
        /\ IF ok \/ ~Readable(files[m]) THEN NoFault ELSE Fault
        /\ raw' = Appended(raw, m, ok)
        /\ appended2' = IF ok THEN m ELSE 0
        /\ pc2' = AfterLoad(ok)
    /\ UNCHANGED <<cursor, metaExists, files, csv, run1, runs, last_loaded2,
                   next_month2>>

\* run_sql_file(SQL_DIR / "transform_silver.sql")
IncSilver2 ==
    /\ pc2 = "silver"
    /\ \E ok \in BOOLEAN :
        /\ IF ok THEN NoFault ELSE Fault
        /\ pc2' = AfterSilver(ok)
    /\ UNCHANGED <<store, run1, runs, last_loaded2, next_month2, appended2>>

\* run_sql_file(SQL_DIR / "aggregate_gold.sql")
IncGold2 ==
    /\ pc2 = "gold"
    /\ \E ok \in BOOLEAN :
        /\ IF ok THEN NoFault ELSE Fault
        /\ pc2' = AfterGold(ok)
    /\ UNCHANGED <<store, run1, runs, last_loaded2, next_month2, appended2>>

\* update_last_loaded_month(next_month): INSERT ... ON CONFLICT DO UPDATE,
\* whatever value the row holds by now.
UpdateLastLoaded2 ==
    /\ pc2 = "update"
    /\ \E ok \in BOOLEAN :
        /\ IF ok THEN NoFault ELSE Fault
        /\ cursor' = IF ok THEN next_month2 ELSE cursor
        /\ pc2' = AfterUpdate(ok)
    /\ UNCHANGED <<metaExists, raw, files, csv, run1, runs, last_loaded2,
                   next_month2, appended2>>

\* if delete_parquet_after: parquet_path.unlink(missing_ok=True)
DeleteParquet2 ==
    /\ pc2 = "unlink"
    /\ LET m == month_int(next_month2) IN
       IF deleteAfter
       THEN \E ok \in BOOLEAN :
              /\ IF ok THEN NoFault ELSE Fault
              /\ files' = [files EXCEPT ![m] = IF ok THEN "missing" ELSE @]
       ELSE NoFault /\ UNCHANGED files
    /\ pc2' = "idle"
    /\ UNCHANGED <<cursor, metaExists, raw, csv, run1, runs, last_loaded2,
                   next_month2, appended2>>

Second ==
    \/ Start2 \/ EnsureMetadata2 \/ GetLastLoaded2 \/ NextMonth2 \/ IncDownload2
    \/ LoadParquet2 \/ IncSilver2 \/ IncGold2 \/ UpdateLastLoaded2
    \/ DeleteParquet2

\* Incremental steps invoked concurrently for the same pipeline name.
NextConc == Incremental \/ Second

SpecConc == Init /\ [][NextConc]_vars

\* ---------------------------------------------- repeated invocation
\* run_incremental.py invoked again, as a scheduler does after every exit,
\* without a limit on the number of invocations.
Reinvoke ==
    /\ pc = "idle"
    /\ kind' = "incremental"
    /\ pc' = "ensure"
    /\ outcome' = "running"
    /\ log' = <<>>
    /\ cursor0' = cursor
    /\ raw0' = raw
    /\ prev' = [kind |-> kind, outcome |-> outcome, failedPart |-> FailedPart(log),
                lastFailed |-> LastFailed(log)]
    /\ last_loaded' = None
    /\ next_month' = None
    /\ month' = 0
    /\ csv_count' = 0
    /\ db_count' = 0
    /\ UNCHANGED <<store, deleteAfter, processed, readFailed, faults, runs, second>>

NextLive ==
    \/ Reinvoke \/ EnsureMetadata \/ GetLastLoaded \/ NextMonth \/ IncDownload
    \/ LoadParquet \/ IncSilver \/ IncGold \/ UpdateLastLoaded \/ DeleteParquet

\* The incremental step invoked again and again; the injected failures are
\* finitely many (MaxFaults), so that from some point on every step that can
\* succeed does, and no run waits forever between two of its steps.
SpecLive == Init /\ [][NextLive]_vars /\ WF_vars(NextLive)

\* ================================================================ claims
IncRun  == kind = "incremental"
FullRun == kind = "full"
Ended   == pc = "idle"
Dec     == FormatMonth(YEAR, LastMonth)

\* The current incremental run has chosen its partition (next_month_after
\* has returned).
Selected == IncRun /\ Has(log, "read") /\ pc # "next"

\* a is strictly later than b in month order; every month is later than no
\* cursor at all.
Later(a, b) ==
    \/ b = None /\ a # None
    \/ /\ Strptime(a).ok /\ Strptime(b).ok
       /\ \/ Strptime(a).year > Strptime(b).year
          \/ /\ Strptime(a).year = Strptime(b).year
             /\ Strptime(a).month > Strptime(b).month

\* C1 (first half): an incremental run in which a step on partition P failed
\* ends with the cursor it started with.
C1_CursorUnchangedOnFailure ==
    (IncRun /\ FailedPart(log) # 0) => cursor = cursor0

\* C1: never-skip.  An incremental run in which a step on partition P failed
\* leaves the cursor unchanged, and the incremental run that follows it
\* selects P again (never another partition, never nothing).
C1_NeverSkip ==
    /\ C1_CursorUnchangedOnFailure
    /\ (Selected /\ prev.kind = "incremental" /\ prev.failedPart # 0)
           => next_month = FormatMonth(YEAR, prev.failedPart)

\* C2: a cursor that is present names a month whose append, cleaning pass and
\* aggregation pass all succeeded in one run, and every cursor write of a run
\* comes after the successful append, cleaning and aggregation of that month
\* in the same run.
C2_CursorNamesProcessed ==
    /\ cursor # None => cursor \in processed
    /\ \A i \in 1..Len(log) :
         (IncRun /\ log[i].step = "commit") =>
            /\ \A s \in {"append", "clean", "aggregate"} :
                 \E j \in 1..(i - 1) : log[j] = Entry(s, log[i].part, TRUE)
            /\ log[i].ok /\ pc # "update" /\ i = Len(log)
                 => cursor = FormatMonth(YEAR, log[i].part)

\* C2 witness: a run has just committed the month it appended, cleaned and
\* aggregated.
C2_Witness ==
    /\ IncRun /\ runs > 0 /\ pc = "unlink"
    /\ cursor = next_month /\ cursor \in processed /\ cursor # cursor0

\* C3: monotonicity.  Whenever a run has written the cursor, the value
\* written is strictly later in month order than the value the run started
\* with, also when the run's read of the cursor failed.
C3_Monotonic ==
    (IncRun /\ cursor # cursor0) => Later(cursor, cursor0)

\* C4: no duplication under re-run.  As long as only incremental steps have
\* written the raw table (no full refresh has merged and loaded), the raw
\* table holds the rows of each month at most once.  The statement is taken
\* over the behaviours in which every read of the cursor succeeded, so that a
\* violation is one of the retry itself.
C4_NoDuplicates ==
    (~csv.exists /\ ~readFailed) => \A m \in Months : raw[m] <= 1

\* C5: idempotence of full refresh.  A full refresh that directly follows a
\* successful full refresh neither truncates the raw table nor inserts into it.
C5_Idempotent ==
    (FullRun /\ prev.kind = "full" /\ prev.outcome = "success")
        => ~Has(log, "truncate") /\ ~Has(log, "insert")

\* C6: change detection.  Once a full refresh has taken the two counts s and
\* d, it skips the load (goes on to the cleaning pass without a truncate)
\* exactly when s = d and s > 0, and otherwise enters the truncate-and-reload
\* path; with s = d = 0 it loads.
C6_DecideRule ==
    (FullRun /\ Has(log, "count")) =>
        /\ (csv_count = db_count /\ csv_count > 0)
              <=> ~(pc = "truncate" \/ Has(log, "truncate"))
        /\ Has(log, "insert") => HasOk(log, "truncate", 0)

\* C6 witness: both counts are 0 and the run has truncated for the reload.
C6_Witness ==
    /\ FullRun /\ Has(log, "count") /\ csv_count = 0 /\ db_count = 0
    /\ HasOk(log, "truncate", 0)

\* C7: exactly one partition per invocation.  An incremental run that ran to
\* its end and committed has moved an absent cursor to month 01 and a cursor
\* at month m < 12 to month m + 1, has appended that one partition once, has
\* written the cursor once, and has not loaded a partition the cursor already
\* covered.
C7_OnePartitionPerRun ==
    (IncRun /\ Ended /\ outcome = "success" /\ Has(log, "commit")) =>
        /\ cursor0 = None => cursor = FormatMonth(YEAR, 1)
        /\ (Strptime(cursor0).ok /\ Strptime(cursor0).month < LastMonth)
              => cursor = FormatMonth(YEAR, Strptime(cursor0).month + 1)
        /\ Count(log, "append") = 1 /\ Count(log, "commit") = 1
        /\ HasOk(log, "append", month_int(cursor))
        /\ Later(FormatMonth(YEAR, Attempted(log)), cursor0)

\* C8: year exhausted.  An incremental run that starts with the cursor at
\* month 12 fetches nothing, appends nothing, runs no cleaning and no
\* aggregation pass, leaves the cursor where it was and, unless the check of
\* the metadata table itself raised, ends with success.
C8_YearExhausted ==
    (IncRun /\ cursor0 = Dec) =>
        /\ \A s \in PartitionSteps : ~Has(log, s)
        /\ cursor = cursor0
        /\ (Ended /\ ~HasFail(log, "ensure")) => outcome = "success"

\* C9: fetch not ready.  When download_parquet reports the artifact of the
\* selected partition as not available, the incremental run has ended there
\* with exit 0: no append, no cleaning, no aggregation, no cursor write, and
\* the cursor is the one the run started with.
C9_NotReady ==
    (IncRun /\ HasFail(log, "fetch")) =>
        /\ Ended /\ outcome = "success"
        /\ \A s \in {"append", "clean", "aggregate", "commit"} : ~Has(log, s)
        /\ cursor = cursor0

\* C9 witness: an incremental run whose fetch failed has ended.
C9_Witness ==
    IncRun /\ Ended /\ HasFail(log, "fetch") /\ Len(log) = 3

\* C10: a full refresh in which the fetch of some month failed runs neither
\* the cleaning nor the aggregation pass, and ends with a failure exit.
C10_AbortOnMissing ==
    (FullRun /\ HasFail(log, "fetch")) =>
        /\ ~Has(log, "clean") /\ ~Has(log, "aggregate")
        /\ Ended => outcome = "failure"

\* Steps of the incremental chain whose exception is re-raised.
HaltingSteps == {"append", "clean", "aggregate", "commit"}

\* C11: halt on failure in incremental mode.  When the append, the cleaning
\* pass, the aggregation pass or the cursor write of an incremental run has
\* failed, the run has ended there with a failure exit: the failed step is
\* the last step it executed.
C11_HaltOnFailure ==
    \A i \in 1..Len(log) :
        (IncRun /\ log[i].step \in HaltingSteps /\ ~log[i].ok) =>
            /\ i = Len(log)
            /\ Ended /\ outcome = "failure"

\* C11 witness: an incremental run has ended on a failed cleaning pass that
\* followed a successful append.
C11_Witness ==
    /\ IncRun /\ Ended /\ HasFail(log, "clean")
    /\ HasOk(log, "append", month_int(next_month))

\* C12: metadata failure is fatal.  An incremental run whose read of the
\* cursor failed works on no partition (no fetch, append, cleaning,
\* aggregation or cursor write), leaves the cursor as it was, and ends as
\* failed.
C12_ReadFailureFatal ==
    (IncRun /\ HasFail(log, "read")) =>
        /\ \A s \in PartitionSteps : ~Has(log, s)
        /\ cursor = cursor0
        /\ Ended => outcome = "failure"

\* The raw table holding each merged month once and nothing else.
MergedRows == [m \in Months |-> IF m \in csv.months THEN 1 ELSE 0]

\* The run before this one was a full refresh that stopped on its bulk insert.
AfterFailedInsert == prev.kind = "full" /\ prev.lastFailed = "insert"

\* C13: self-healing truncation.  A full-refresh run whose bulk insert fails
\* after the truncation ends in failure with the raw table empty; the full
\* refresh invoked next reads the destination count 0, takes the load path
\* (truncate, then insert) and never the skip, and when it ends in success the
\* raw table holds exactly the rows of the merged file.
C13_SelfHealing ==
    /\ (FullRun /\ HasFail(log, "insert")) =>
           /\ \A m \in Months : raw[m] = 0
           /\ Ended /\ outcome = "failure"
    /\ (FullRun /\ AfterFailedInsert /\ Has(log, "count")) =>
           /\ db_count = 0
           /\ pc = "truncate" \/ Has(log, "truncate")
           /\ (Ended /\ outcome = "success") =>
                  /\ HasOk(log, "insert", 0)
                  /\ raw = MergedRows

\* C13 witness: the full refresh that follows a failed bulk insert has ended
\* in success after reloading a non-empty merged file.
C13_Witness ==
    /\ FullRun /\ AfterFailedInsert
    /\ Ended /\ outcome = "success"
    /\ HasOk(log, "insert", 0)
    /\ csv.months # {} /\ raw = MergedRows

\* C14: append does not disturb earlier partitions.  An incremental run never
\* truncates the raw table, and at every point of the run each partition holds
\* the rows it held when the run started, except the partition the run has
\* appended, which holds them and one more copy; a failed append changes
\* nothing.
C14_AppendFrame ==
    IncRun =>
        /\ ~Has(log, "truncate")
        /\ \A m \in Months :
               /\ raw[m] >= raw0[m]
               /\ raw[m] # raw0[m] =>
                      HasOk(log, "append", m) /\ raw[m] = raw0[m] + 1
        /\ HasFail(log, "append") => raw = raw0

\* C14 witness: an incremental run has appended the last month to a table
\* that already held earlier months.
C14_Witness ==
    /\ IncRun /\ runs >= 1
    /\ HasOk(log, "append", LastMonth)
    /\ raw0[1] = 1 /\ raw[1] = 1
    /\ raw[LastMonth] = raw0[LastMonth] + 1

\* Steps of a full refresh that come before the cleaning pass and whose
\* exception ends the run.
RawStageSteps == {"create", "merge", "truncate", "insert"}

Between == {"next", "download", "load", "silver", "gold", "update"}

\* C16: mutual exclusion of runs.  With incremental steps invoked
\* concurrently, two invocations are never both between their cursor read and
\* their cursor commit, and two invocations in progress have never both
\* appended the same partition.
C16_MutualExclusion ==
    /\ ~(IncRun /\ pc \in Between /\ pc2 \in Between)
    /\ ~(/\ IncRun /\ pc # "idle" /\ pc2 # "idle"
         /\ appended2 # 0
         /\ HasOk(log, "append", appended2))

\* C16, the consequence alone: two overlapping invocations have never both
\* appended the same partition.
C16_NoDoubleAppend ==
    ~(/\ IncRun /\ pc # "idle" /\ pc2 # "idle"
      /\ appended2 # 0
      /\ HasOk(log, "append", appended2))

\* C17: transfer failure is retryable.  The fetcher reports an artifact as
\* present only when the local path holds a complete artifact, so that a
\* transfer that failed, part-way through the file included, is attempted
\* again by the next invocation: when an incremental run goes on to the
\* append, and while a full refresh fetches and merges, every artifact that
\* was reported present in this run is complete.
C17_PresentOnlyIfComplete ==
    /\ (IncRun /\ pc = "load") =>
           files[month_int(next_month)] = "complete"
    /\ (FullRun /\ pc \in {"download_all", "merge"}) =>
           \A i \in 1..Len(log) :
               (log[i].step = "fetch" /\ log[i].ok) =>
                   files[log[i].part] = "complete"

\* C18: full refresh loads the union of all months.  A full-refresh run that
\* ends in success with the artifacts of all twelve months complete on disk
\* leaves the raw table holding the rows of every month.
C18_UnionOfAllMonths ==
    (/\ FullRun /\ Ended /\ outcome = "success"
     /\ \A m \in Months : files[m] = "complete") =>
        \A m \in Months : raw[m] >= 1

\* C20: count failures are not swallowed.  A full-refresh run in which the
\* read of the destination count or of the merged file's count failed has
\* halted with a failure outcome, has not truncated the table and has left
\* the raw table as it was when the run started.
C20_CountFailureHalts ==
    (FullRun /\ HasFail(log, "count")) =>
        /\ Ended /\ outcome = "failure"
        /\ ~Has(log, "truncate")
        /\ raw = raw0

\* C19: convergence by re-invocation.  When the incremental step is invoked
\* again and again and the failures of the steps come to an end, the cursor
\* reaches month 12 of the dataset year and stays there.
C19_Convergence == <>[](cursor = Dec)

\* C19, the first part: every run of the incremental step comes to its end.
C19_Terminates == (pc # "idle") ~> (pc = "idle")

\* The current incremental run has written the cursor.
Committed == IncRun /\ \E m \in Months : HasOk(log, "commit", m)

\* C21: the cursor names what was loaded.  Whatever the cursor was at first,
\* once an incremental run has written the cursor, the year and month the
\* cursor holds are the year and month of the artifact the run fetched and
\* appended to the raw table.
C21_CursorNamesLoaded ==
    Committed =>
        LET a == parquet_path(next_month) IN
        /\ HasOk(log, "fetch", a.month) /\ HasOk(log, "append", a.month)
        /\ Strptime(cursor).ok
        /\ Strptime(cursor).year = a.year
        /\ Strptime(cursor).month = a.month

\* C22: full refresh leaves the cursor untouched.  At every point of a
\* full-refresh run, ended in success or in failure, the cursor holds the
\* value it held when the run started, and the run has neither read the
\* cursor nor written it, whatever it did to the raw table.
C22_CursorUntouched ==
    FullRun =>
        /\ cursor = cursor0
        /\ ~Has(log, "read") /\ ~Has(log, "commit")
        /\ last_loaded = None

\* C22 witness: a full refresh has ended in success after changing the raw
\* table of an installation whose cursor is set.
C22_Witness ==
    /\ FullRun /\ Ended /\ outcome = "success"
    /\ raw # raw0
    /\ cursor0 # None /\ cursor = cursor0

\* C23: malformed cursor blocks progress.  An incremental run started on a
\* cursor that is no valid 'YYYY-MM' text performs no fetch, no append, no
\* cleaning, no aggregation and no cursor write, leaves the cursor at the
\* malformed value, and ends with success (a run whose very first step,
\* creating the metadata table, failed is left aside).
C23_MalformedBlocks ==
    (IncRun /\ cursor0 \in Malformed) =>
        /\ \A s \in PartitionSteps : ~Has(log, s)
        /\ cursor = cursor0
        /\ (Ended /\ ~HasFail(log, "ensure")) => outcome = "success"

\* C23 with the runs whose cursor read failed left aside.
C23_MalformedBlocksWhenRead ==
    (IncRun /\ cursor0 \in Malformed /\ ~HasFail(log, "read")) =>
        /\ \A s \in PartitionSteps : ~Has(log, s)
        /\ cursor = cursor0
        /\ (Ended /\ ~HasFail(log, "ensure")) => outcome = "success"
====
